---- MODULE Spec2Model ----
(***************************************************************************)
(* The shipment list manager of the Home page component: the in-memory     *)
(* shipment collection, the form draft, the edit mode and the handlers     *)
(* that change them (input change, submit, edit, delete, cancel, clear).   *)
(*                                                                         *)
(* JavaScript strings are sequences of one-character strings.  JavaScript  *)
(* numbers are exact decimals: [k |-> "fin", m |-> mantissa, e |-> number  *)
(* of fraction digits] with no trailing fraction zero, or one of the       *)
(* non-finite values Infinity, -Infinity, NaN.  Exponent notation is       *)
(* outside the alphabet of the drafts considered here.                     *)
(***************************************************************************)
EXTENDS Integers, Sequences, FiniteSets, TLC

VARIABLES shipments, editingId, formData, toast, issued

vars == <<shipments, editingId, formData, toast, issued>>

(***************************************************************************)
(* Bounds of the model.                                                    *)
(***************************************************************************)
\* nanoid() is called at most MaxIds times in a run
MaxIds == 2

\* the texts a user types into each field of the form
Typed ==
  [ length    |-> { <<"1", ".", "2">>, <<"x">> },
    width     |-> { <<"3">>, <<"0">> },
    height    |-> { <<"4">>, <<"1", "x">> },
    weight    |-> { <<"1", ".", "5">>, <<"I", "n", "f", "i", "n", "i", "t", "y">> },
    reference |-> { <<"R">> } ]

(***************************************************************************)
(* Numbers                                                                 *)
(***************************************************************************)
NaN == [k |-> "nan", m |-> 0, e |-> 0]

Infinity == [k |-> "inf", m |-> 0, e |-> 0]

NegInfinity == [k |-> "ninf", m |-> 0, e |-> 0]

RECURSIVE Pow10(_)
Pow10(n) == IF n = 0 THEN 1 ELSE 10 * Pow10(n - 1)

\* the decimal m / 10^e without trailing fraction zeros
RECURSIVE Fin(_, _)
Fin(m, e) ==
  IF e > 0 /\ m % 10 = 0 THEN Fin(m \div 10, e - 1)
  ELSE [k |-> "fin", m |-> m, e |-> e]

isNaN(n) == n.k = "nan"

\* n <= 0 as JavaScript compares numbers (false when n is NaN)
LeZero(n) == n.k = "ninf" \/ (n.k = "fin" /\ n.m <= 0)

\* n < 0
LtZero(n) == n.k = "ninf" \/ (n.k = "fin" /\ n.m < 0)

\* Math.round in place of Math.ceil: halves and above go up, the rest down
MathRound(n) ==
  IF n.k # "fin" THEN n
  ELSE LET p == Pow10(n.e)
       IN  [k |-> "fin", m |-> (2 * n.m + p) \div (2 * p), e |-> 0]

\* Math.ceil: the least integer not below n; non-finite values are kept
MathCeil(n) ==
  IF n.k # "fin" THEN n
  ELSE LET p == Pow10(n.e)
           q == n.m \div p      \* floor, \div rounds towards minus infinity
       IN  [k |-> "fin", m |-> IF q * p = n.m THEN q ELSE q + 1, e |-> 0]

(***************************************************************************)
(* Strings and the conversions between strings and numbers                 *)
(***************************************************************************)
EmptyString == << >>

Digits == <<"0", "1", "2", "3", "4", "5", "6", "7", "8", "9">>

IsDigit(c) == \E i \in 1..10 : Digits[i] = c

DigitVal(c) == (CHOOSE i \in 1..10 : Digits[i] = c) - 1

IsWhite(c) == c \in {" ", "\t", "\n"}

Drop(s, n) == SubSeq(s, n + 1, Len(s))

\* the number of leading characters of s that are white space
RECURSIVE LeadingWhite(_)
LeadingWhite(s) ==
  IF s # << >> /\ IsWhite(Head(s)) THEN 1 + LeadingWhite(Tail(s)) ELSE 0

\* the number of leading characters of s that are decimal digits
RECURSIVE LeadingDigits(_)
LeadingDigits(s) ==
  IF s # << >> /\ IsDigit(Head(s)) THEN 1 + LeadingDigits(Tail(s)) ELSE 0

\* the value of a sequence of decimal digits
RECURSIVE DigitsValue(_)
DigitsValue(s) ==
  IF s = << >> THEN 0
  ELSE 10 * DigitsValue(SubSeq(s, 1, Len(s) - 1)) + DigitVal(s[Len(s)])

InfinityText == <<"I", "n", "f", "i", "n", "i", "t", "y">>

StartsWith(s, p) == Len(s) >= Len(p) /\ SubSeq(s, 1, Len(p)) = p

Negate(n) ==
  CASE n.k = "fin"  -> [n EXCEPT !.m = 0 - n.m]
    [] n.k = "inf"  -> NegInfinity
    [] n.k = "ninf" -> Infinity
    [] OTHER        -> n

\* The conversion parseFloat makes: leading white space is skipped, then the
\* longest prefix that is a decimal literal (sign, Infinity or digits with
\* an optional fraction) is converted and whatever follows it is ignored;
\* NaN when no prefix is a decimal literal.
StrDecimalValue(str) ==
  LET s    == Drop(str, LeadingWhite(str))
      neg  == s # << >> /\ Head(s) = "-"
      sgn  == s # << >> /\ Head(s) \in {"+", "-"}
      u    == IF sgn THEN Tail(s) ELSE s
      ni   == LeadingDigits(u)
      r    == Drop(u, ni)
      dot  == r # << >> /\ Head(r) = "."
      nf   == IF dot THEN LeadingDigits(Tail(r)) ELSE 0
      mant == DigitsValue(SubSeq(u, 1, ni) \o SubSeq(r, 2, nf + 1))
      abs  == IF StartsWith(u, InfinityText) THEN Infinity
              ELSE IF ni = 0 /\ nf = 0 THEN NaN
              ELSE Fin(mant, nf)
  IN  IF neg THEN Negate(abs) ELSE abs

\* the conversions of the texts that occur most, computed once
Converted ==
  [t \in {EmptyString, <<"1">>, <<"2">>} \cup UNION {Typed[f] : f \in DOMAIN Typed}
     |-> StrDecimalValue(t)]

\* parseFloat, looked up when the text is a common one and computed otherwise
parseFloat(str) ==
  IF str \in DOMAIN Converted THEN Converted[str] ELSE StrDecimalValue(str)

\* the decimal digits of a natural number
RECURSIVE NatText(_)
NatText(n) ==
  IF n < 10 THEN <<Digits[n + 1]>>
  ELSE NatText(n \div 10) \o <<Digits[(n % 10) + 1]>>

\* n decimal digits of the natural number v, zero padded on the left
RECURSIVE PadText(_, _)
PadText(v, n) ==
  IF n = 0 THEN << >>
  ELSE PadText(v \div 10, n - 1) \o <<Digits[(v % 10) + 1]>>

\* Number.prototype.toString
toString(n) ==
  CASE n.k = "nan"  -> <<"N", "a", "N">>
    [] n.k = "inf"  -> InfinityText
    [] n.k = "ninf" -> <<"-">> \o InfinityText
    [] OTHER ->
         LET a == IF n.m < 0 THEN 0 - n.m ELSE n.m
             p == Pow10(n.e)
         IN  (IF n.m < 0 THEN <<"-">> ELSE << >>)
             \o NatText(a \div p)
             \o (IF n.e > 0 THEN <<".">> \o PadText(a % p, n.e) ELSE << >>)

(***************************************************************************)
(* State                                                                   *)
(***************************************************************************)
\* editingId when no record is being edited
null == 0

Fields == {"length", "width", "height", "weight", "reference"}

\* the form with every field empty
EmptyForm ==
  [ length |-> EmptyString, width |-> EmptyString, height |-> EmptyString,
    weight |-> EmptyString, reference |-> EmptyString ]

NoToast == "none"

Init ==
  /\ shipments = << >>
  /\ editingId = null
  /\ formData = EmptyForm
  /\ toast = NoToast
  /\ issued = 0

(***************************************************************************)
(* Handlers                                                                *)
(***************************************************************************)
\* nanoid(): an id that no earlier call returned, here the number of the call
nanoid == issued + 1

handleInputChange(field, value) ==
  /\ formData' = [formData EXCEPT ![field] = value]
  /\ UNCHANGED <<shipments, editingId, toast, issued>>

\* validateForm with l < 0 in place of l <= 0: zero passes
validationErrorZeroPasses ==
  LET l  == parseFloat(formData.length)
      w  == parseFloat(formData.width)
      h  == parseFloat(formData.height)
      wt == parseFloat(formData.weight)
  IN  IF \/ formData.length = EmptyString \/ formData.width = EmptyString
         \/ formData.height = EmptyString \/ formData.weight = EmptyString
      THEN "Please fill in all dimension and weight fields"
      ELSE IF isNaN(l) \/ isNaN(w) \/ isNaN(h) \/ isNaN(wt)
      THEN "Dimensions and weight must be valid numbers"
      ELSE IF LtZero(l) \/ LtZero(w) \/ LtZero(h) \/ LtZero(wt)
      THEN "Dimensions and weight must be greater than zero"
      ELSE NoToast

\* validateForm without the isNaN test: NaN <= 0 is false, so NaN passes
validationErrorNaNPasses ==
  LET l  == parseFloat(formData.length)
      w  == parseFloat(formData.width)
      h  == parseFloat(formData.height)
      wt == parseFloat(formData.weight)
  IN  IF \/ formData.length = EmptyString \/ formData.width = EmptyString
         \/ formData.height = EmptyString \/ formData.weight = EmptyString
      THEN "Please fill in all dimension and weight fields"
      ELSE IF LeZero(l) \/ LeZero(w) \/ LeZero(h) \/ LeZero(wt)
      THEN "Dimensions and weight must be greater than zero"
      ELSE NoToast

\* the toast.error message of validateForm, NoToast when the form passes
validationError ==
  LET l  == parseFloat(formData.length)
      w  == parseFloat(formData.width)
      h  == parseFloat(formData.height)
      wt == parseFloat(formData.weight)
  IN  IF \/ formData.length = EmptyString \/ formData.width = EmptyString
         \/ formData.height = EmptyString \/ formData.weight = EmptyString
      THEN "Please fill in all dimension and weight fields"
      ELSE IF isNaN(l) \/ isNaN(w) \/ isNaN(h) \/ isNaN(wt)
      THEN "Dimensions and weight must be valid numbers"
      ELSE IF LeZero(l) \/ LeZero(w) \/ LeZero(h) \/ LeZero(wt)
      THEN "Dimensions and weight must be greater than zero"
      ELSE NoToast

validateForm == validationError = NoToast

\* the record handleAddShipment builds from the form data and the edit mode
newShipment(form, editing) ==
  [ id        |-> IF editing # null THEN editing ELSE nanoid,
    length    |-> MathCeil(parseFloat(form.length)),
    width     |-> MathCeil(parseFloat(form.width)),
    height    |-> MathCeil(parseFloat(form.height)),
    weight    |-> parseFloat(form.weight),
    reference |-> form.reference ]

\* the edited record taken out and the new one put at the end
replacedAtEnd(prev, editing, shipment) ==
  Append(SelectSeq(prev, LAMBDA s : s.id # editing), shipment)

\* prev.map(s => s.id === editingId ? newShipment : s)
replaced(prev, editing, shipment) ==
  [i \in 1..Len(prev) |->
     IF prev[i].id = editing THEN shipment ELSE prev[i]]

\* handleAddShipment without setEditingId(null) after an update
handleAddShipmentStaysEditing ==
  IF ~validateForm
  THEN /\ toast' = validationError
       /\ UNCHANGED <<shipments, editingId, formData, issued>>
  ELSE /\ IF editingId # null
          THEN /\ shipments' = replaced(shipments, editingId, newShipment(formData, editingId))
               /\ toast' = "Package updated"
               /\ UNCHANGED issued
          ELSE /\ issued < MaxIds
               /\ shipments' = Append(shipments, newShipment(formData, editingId))
               /\ toast' = "Package added"
               /\ issued' = issued + 1
       /\ UNCHANGED editingId
       /\ formData' = EmptyForm

handleAddShipment ==
  IF ~validateForm
  THEN /\ toast' = validationError
       /\ UNCHANGED <<shipments, editingId, formData, issued>>
  ELSE /\ IF editingId # null
          THEN /\ shipments' = replaced(shipments, editingId, newShipment(formData, editingId))
               /\ toast' = "Package updated"
               /\ editingId' = null
               /\ UNCHANGED issued
          ELSE /\ issued < MaxIds
               /\ shipments' = Append(shipments, newShipment(formData, editingId))
               /\ toast' = "Package added"
               /\ issued' = issued + 1
               /\ UNCHANGED editingId
       /\ formData' = EmptyForm

\* the form handleEdit fills in from a record
formOf(shipment) ==
  [ length    |-> toString(shipment.length),
    width     |-> toString(shipment.width),
    height    |-> toString(shipment.height),
    weight    |-> toString(shipment.weight),
    reference |-> shipment.reference ]

\* handleEdit that keeps the record already being edited as the target
handleEditFirstWins(shipment) ==
  /\ formData' = formOf(shipment)
  /\ editingId' = IF editingId # null THEN editingId ELSE shipment.id
  /\ toast' = "Editing package"
  /\ UNCHANGED <<shipments, issued>>

handleEdit(shipment) ==
  /\ formData' = formOf(shipment)
  /\ editingId' = shipment.id
  /\ toast' = "Editing package"
  /\ UNCHANGED <<shipments, issued>>

\* the record at place id taken out, as if id were an index
filteredByIndex(id) ==
  IF id > Len(shipments) THEN shipments
  ELSE SubSeq(shipments, 1, id - 1) \o SubSeq(shipments, id + 1, Len(shipments))

\* prev.filter(s => s.id !== id)
filtered(id) == SelectSeq(shipments, LAMBDA s : s.id # id)

\* handleDelete without leaving edit mode when the edited record goes
handleDeleteStaysEditing(id) ==
  /\ shipments' = filtered(id)
  /\ toast' = "Package removed"
  /\ UNCHANGED <<editingId, formData, issued>>

handleDelete(id) ==
  /\ shipments' = filtered(id)
  /\ editingId' = IF editingId = id THEN null ELSE editingId
  /\ toast' = "Package removed"
  /\ UNCHANGED <<formData, issued>>

\* the Cancel button, rendered while a record is being edited
handleCancel ==
  /\ editingId # null
  /\ editingId' = null
  /\ formData' = EmptyForm
  /\ toast' = "Editing cancelled"
  /\ UNCHANGED <<shipments, issued>>

\* confirmed is the answer of the confirm() dialog
handleClearAll(confirmed) ==
  IF Len(shipments) = 0 \/ ~confirmed
  THEN UNCHANGED vars
  ELSE /\ shipments' = << >>
       /\ editingId' = null
       /\ toast' = "All packages cleared"
       /\ UNCHANGED <<formData, issued>>

\* the records shown as cards, each with an edit and a delete button
Cards == {shipments[i] : i \in 1..Len(shipments)}

InputChange == \E field \in Fields : \E value \in Typed[field] : handleInputChange(field, value)

Submit == handleAddShipment

Edit == \E shipment \in Cards : handleEdit(shipment)

\* a delete click, on a card shown now or on one already removed
Delete == \E id \in 1..issued : handleDelete(id)

Cancel == handleCancel

ClearAll == \E confirmed \in BOOLEAN : handleClearAll(confirmed)

Next == InputChange \/ Submit \/ Edit \/ Delete \/ Cancel \/ ClearAll

Spec == Init /\ [][Next]_vars

(***************************************************************************)
(* Vocabulary of the properties                                            *)
(***************************************************************************)
NumericFields == {"length", "width", "height", "weight"}

Present(id) == \E i \in 1..Len(shipments) : shipments[i].id = id

\* the draft has a numeric field that is missing, has no numeric reading,
\* or reads as a number that is not above zero
DraftRejectable ==
  \E f \in NumericFields :
     LET n == parseFloat(formData[f])
     IN  \/ formData[f] = EmptyString
         \/ n.k = "nan"
         \/ n.k = "ninf"
         \/ (n.k = "fin" /\ n.m <= 0)

\* the four numeric fields of a form are filled in and read as numbers > 0
FormValid(form) ==
  \A f \in NumericFields :
     /\ form[f] # EmptyString
     /\ \/ parseFloat(form[f]).k = "inf"
        \/ (parseFloat(form[f]).k = "fin" /\ parseFloat(form[f]).m > 0)

DraftValid == FormValid(formData)

\* c is the least integer that is not below x (x itself when x is infinite)
IsCeilOf(c, x) ==
  IF x.k # "fin" THEN c = x
  ELSE /\ c.k = "fin" /\ c.e = 0
       /\ c.m * Pow10(x.e) >= x.m
       /\ (c.m - 1) * Pow10(x.e) < x.m

\* the whole text s is a finite decimal numeral: an optional sign, digits,
\* an optional fraction, and nothing else
IsFiniteNumeral(s) ==
  LET u  == IF s # << >> /\ Head(s) \in {"+", "-"} THEN Tail(s) ELSE s
      ni == LeadingDigits(u)
      r  == Drop(u, ni)
      nf == IF r # << >> /\ Head(r) = "." THEN LeadingDigits(Tail(r)) ELSE 0
  IN  /\ ni + nf > 0
      /\ \/ r = << >>
         \/ (Head(r) = "." /\ Len(r) = nf + 1)

StoreFinitePositive ==
  \A i \in 1..Len(shipments) :
     /\ \A f \in {"length", "width", "height"} :
           shipments[i][f].k = "fin" /\ shipments[i][f].e = 0 /\ shipments[i][f].m > 0
     /\ shipments[i].weight.k = "fin" /\ shipments[i].weight.m > 0

\* every numeric field of the draft is a finite numeral above zero
DraftFinitePositive ==
  \A f \in NumericFields :
     /\ IsFiniteNumeral(formData[f])
     /\ parseFloat(formData[f]).k = "fin"
     /\ parseFloat(formData[f]).m > 0

\* C2: a submit is rejected (collection, edit mode and draft stay as they
\* were) unless all four numeric fields are present, are finite numbers in
\* full (no trailing text, not infinite) and are above zero; so every stored
\* record has finite positive integer dimensions and a finite positive weight.
C2_OnlyFinitePositiveAccepted ==
  [][/\ StoreFinitePositive'
     /\ (~DraftFinitePositive /\ handleAddShipment)
          => UNCHANGED <<shipments, editingId, formData>>]_vars

(***************************************************************************)
(* C3                                                                      *)
(***************************************************************************)
\* C3: a submit of a valid draft while idle makes the collection one longer;
\* the new record is last, its dimensions are the ceilings of the draft's,
\* its weight is the draft's weight unrounded, its reference is the draft's,
\* and the records that were there keep their values and positions.
C3_AddAppendsCeiledRecord ==
  [][(editingId = null /\ DraftValid /\ handleAddShipment) =>
       /\ Len(shipments') = Len(shipments) + 1
       /\ LET r == shipments'[Len(shipments')]
          IN  /\ IsCeilOf(r.length, parseFloat(formData.length))
              /\ IsCeilOf(r.width, parseFloat(formData.width))
              /\ IsCeilOf(r.height, parseFloat(formData.height))
              /\ r.weight = parseFloat(formData.weight)
              /\ r.reference = formData.reference
       /\ \A i \in 1..Len(shipments) : shipments'[i] = shipments[i]]_vars

\* the draft 1.2 x 3 x 4, 1.5 lb, reference R was added as the second
\* record: 2 x 3 x 4, 1.5 lb, R
C3_Witness ==
  /\ toast = "Package added"
  /\ Len(shipments) = 2
  /\ shipments[2].length = [k |-> "fin", m |-> 2, e |-> 0]
  /\ shipments[2].width = [k |-> "fin", m |-> 3, e |-> 0]
  /\ shipments[2].height = [k |-> "fin", m |-> 4, e |-> 0]
  /\ shipments[2].weight = [k |-> "fin", m |-> 15, e |-> 1]
  /\ shipments[2].reference = <<"R">>

(***************************************************************************)
(* C4                                                                      *)
(***************************************************************************)
\* C4: a valid submit while editing id keeps the length of the collection,
\* keeps every record's id at its position (so the record with that id
\* stays where it was), and leaves every record but that one unchanged.
C4_UpdateInPlace ==
  [][(editingId # null /\ DraftValid /\ handleAddShipment) =>
       /\ Len(shipments') = Len(shipments)
       /\ \A i \in 1..Len(shipments) :
             /\ shipments'[i].id = shipments[i].id
             /\ shipments[i].id # editingId => shipments'[i] = shipments[i]]_vars

\* the first of two records was updated to the draft with height 1x; the
\* second still has the height it was added with
C4_Witness ==
  /\ toast = "Package updated"
  /\ Len(shipments) = 2
  /\ shipments[1].id = 1 /\ shipments[1].height.m = 1
  /\ shipments[2].id = 2 /\ shipments[2].height.m = 4

(***************************************************************************)
(* C5                                                                      *)
(***************************************************************************)
\* C5: deleting the record that is being edited leaves edit mode and clears
\* the draft (all five fields empty).
C5_DeleteOfEditedClearsDraft ==
  [][\A id \in 1..MaxIds :
       (editingId = id /\ handleDelete(id)) =>
          (editingId' = null /\ formData' = EmptyForm)]_vars

(***************************************************************************)
(* C6                                                                      *)
(***************************************************************************)
\* C6: in every reachable state every stored record has length, width,
\* height and weight above zero, and no two stored records share an id.
C6_PositiveAndUniqueIds ==
  /\ \A i \in 1..Len(shipments) : \A f \in NumericFields :
        \/ shipments[i][f].k = "inf"
        \/ (shipments[i][f].k = "fin" /\ shipments[i][f].m > 0)
  /\ \A i, j \in 1..Len(shipments) :
        shipments[i].id = shipments[j].id => i = j

\* two records are stored, one of them after an update
C6_Witness ==
  /\ Len(shipments) = 2
  /\ toast = "Package updated"
  /\ shipments[1].weight.k = "inf"

(***************************************************************************)
(* C7                                                                      *)
(***************************************************************************)
\* C7: after a valid submit no record is being edited and all five draft
\* fields are empty; from editing the collection keeps its length (updated
\* in place), from idle it is one longer (a new record appended).
C7_ValidSubmitResets ==
  [][(DraftValid /\ handleAddShipment) =>
       /\ editingId' = null
       /\ formData' = EmptyForm
       /\ editingId # null =>
            /\ Len(shipments') = Len(shipments)
            /\ \A i \in 1..Len(shipments) : shipments'[i].id = shipments[i].id
       /\ editingId = null =>
            /\ Len(shipments') = Len(shipments) + 1
            /\ SubSeq(shipments', 1, Len(shipments)) = shipments]_vars

\* a submit in edit mode went through: idle again with an empty form
C7_Witness ==
  /\ toast = "Package updated"
  /\ editingId = null
  /\ formData = EmptyForm
  /\ Len(shipments) >= 1

(***************************************************************************)
(* C8                                                                      *)
(***************************************************************************)
\* at most one stored record is the one being edited
AtMostOneEdited ==
  \A i, j \in 1..Len(shipments) :
     (shipments[i].id = editingId /\ shipments[j].id = editingId) => i = j

\* C8: at most one record is in edit mode at any time; an edit click on
\* record R2 while R1 is being edited makes R2 the edited record, fills the
\* draft so that it reads as R2's current values, leaves the collection
\* unchanged, and the draft is then valid and a submit of it changes no
\* record but R2.
C8_LastEditWins ==
  [][/\ AtMostOneEdited /\ AtMostOneEdited'
     /\ \A s \in Cards :
          (editingId # null /\ editingId # s.id /\ handleEdit(s)) =>
             /\ editingId' = s.id
             /\ parseFloat(formData'.length) = s.length
             /\ parseFloat(formData'.width) = s.width
             /\ parseFloat(formData'.height) = s.height
             /\ parseFloat(formData'.weight) = s.weight
             /\ formData'.reference = s.reference
             /\ shipments' = shipments
             /\ FormValid(formData')
             /\ LET after == replaced(shipments', editingId',
                                      newShipment(formData', editingId'))
                IN  /\ Len(after) = Len(shipments)
                    /\ \A i \in 1..Len(shipments) :
                          shipments[i].id # s.id => after[i] = shipments[i]]_vars

\* the second record, of weight 1.5, is being edited and the draft holds
\* its values
C8_Witness ==
  /\ toast = "Editing package"
  /\ Len(shipments) = 2
  /\ editingId = 2
  /\ shipments[2].weight = [k |-> "fin", m |-> 15, e |-> 1]
  /\ formData.weight = <<"1", ".", "5">>
  /\ formData.length = <<"2">>

(***************************************************************************)
(* C9                                                                      *)
(***************************************************************************)
\* the places of the records whose id is not id
Others(id) == {i \in 1..Len(shipments) : shipments[i].id # id}

C10_EditedRecordExists ==
  editingId # null =>
     Cardinality({i \in 1..Len(shipments) : shipments[i].id = editingId}) = 1

\* a record is still being edited after another record was deleted
C10_Witness ==
  /\ editingId # null
  /\ toast = "Package removed"
  /\ Len(shipments) = 1

====
